---------------------------- MODULE Spec2Model ----------------------------
(***************************************************************************)
(* Model of app.py (login_org): the credential table and the login,        *)
(* registration and logout handlers of the Streamlit script, the pacing    *)
(* and retry of model calls, the salvage of a JSON object from model text  *)
(* and the PDF text extraction.                                            *)
(*                                                                         *)
(* Strings are sequences of one-character strings, so that strip(), len()  *)
(* and find()/rfind() are computed as the code computes them.              *)
(***************************************************************************)
EXTENDS Integers, Sequences, FiniteSets, TLC

VARIABLES
    \* ---- credential store and sessions (Spec)
    users,          \* rows of table users: [id, username, password_hash, created_at]
    seq,            \* sqlite_sequence of the AUTOINCREMENT id: the largest id handed out
    utcnow,         \* datetime.utcnow(), in seconds
    session,        \* st.session_state per browser session: [logged_in, username]
    pc,             \* position of each session's script run
    local,          \* locals nu, p1 of a registration run between user_exists and create_user
    out,            \* what the last completed run showed: [msg, note]; note tells, for
                    \* a refused login, whether the user name was in the table, and for
                    \* a create_user on a name in the table, whether the password was
                    \* the stored one (history)
    created,        \* history: <<username, password>> of every create_user that returned True
    \* ---- salvage of the model's response (SalvageSpec)
    full,           \* the text collected from the stream, as a sequence of tokens
    handler,        \* "none", or the handler that has processed full: "seo", "email"
    data,           \* the value json.loads returned (data / payload), NoneValue if none
    shown,          \* what the handler showed, in order
    crashed,        \* TRUE when the handler ended in an exception nothing catches
    \* ---- pacing and retry of model calls (PaceSpec, RetrySpec)
    now,            \* time.time(), in seconds
    last_call_ts,   \* st.session_state["_last_call_ts"], 0 when not set
    model_id,       \* st.session_state["_gemini_model_id"]
    hpc,            \* position of the run: "idle", "chat", "chat_fallback", "seo", "email"
    rt,             \* the send_with_retry call in progress: its arguments and locals,
                    \* and the history of its attempts and sleeps
    ui,             \* what the run showed last
    lastSendTs,     \* history: time of the last chat.send_message, -1 when none
    sends,          \* history: chat.send_message calls of the run in progress / last run
    \* ---- extract_text_from_pdf (PdfSpec)
    pages,          \* number of pages of the uploaded document
    lib,            \* the library at work: 1 PyPDF2, 2 pypdf, 3 pdfplumber; 4 when all failed
    ppc,            \* "open", "pages", "returned"
    page,           \* pages the library at work has read
    pdf_text,       \* local text
    own,            \* history: the page texts the library at work has produced
    result          \* the returned string

storeVars == <<users, seq, utcnow, session, pc, local, out, created>>

salvageVars == <<full, handler, data, shown, crashed>>

paceVars == <<now, last_call_ts, model_id, hpc, rt, ui, lastSendTs, sends>>

pdfVars == <<pages, lib, ppc, page, pdf_text, own, result>>

vars == <<storeVars, salvageVars, paceVars, pdfVars>>

-----------------------------------------------------------------------------
(* Bounds and inputs                                                       *)

MaxClock == 1

MaxTextLen == 5

\* seconds of wall clock the pacing model covers after its start
Horizon == 36

\* arguments of send_with_retry tried by RetrySpec
MaxTries == 4
MaxInitialWait == 3

\* pages of an uploaded document
MaxPages == 3

Sessions == {"s1", "s2"}

\* raw text typed in the user-name fields
RawNames == { <<" ">>, <<"a">>, <<" ", "a", " ">>, <<"b">> }

PwSecret == <<"s", "e", "c", "r", "e", "t", "1">>
PwOther  == <<"o", "t", "h", "e", "r", "1", "2">>
PwWrong  == <<"w", "r", "o", "n", "g">>

\* raw text typed in the password fields
Passwords == { <<>>, PwWrong, PwSecret, PwOther }

-----------------------------------------------------------------------------
(* Helpers of the credential store                                         *)

RECURSIVE lstrip(_)
lstrip(s) == IF s # <<>> /\ Head(s) = " " THEN lstrip(Tail(s)) ELSE s

RECURSIVE rstrip(_)
rstrip(s) ==
    IF s # <<>> /\ s[Len(s)] = " " THEN rstrip(SubSeq(s, 1, Len(s) - 1)) ELSE s

\* str.strip()
strip(s) == rstrip(lstrip(s))

\* hashlib.sha256(p.encode("utf-8")).hexdigest(): a digest, taken to be
\* collision free on the passwords of the model
hash_password(p) == <<"sha256">> \o p

\* the rows SELECT ... WHERE username = ? yields
rows_of(table, username) == { r \in table : r.username = username }

\* cur.fetchone(): the row with the lowest rowid, None when there is none
fetchone(rs) == CHOOSE r \in rs : \A q \in rs : r.id <= q.id

user_exists(table, username) == rows_of(table, username) # {}

check_credentials_any(table, username, password) ==
    rows_of(table, username) # {}
check_credentials(table, username, password) ==
    LET rs == rows_of(table, username)
    IN  rs # {} /\ fetchone(rs).password_hash = hash_password(password)

\* INSERT INTO users under  username TEXT UNIQUE NOT NULL  and
\* id INTEGER PRIMARY KEY AUTOINCREMENT: [ok, table, seq]
new_row(s, username, password, at) ==
    [id |-> s + 1, username |-> username,
     password_hash |-> hash_password(password), created_at |-> at]

insert_no_unique(table, s, username, password, at) ==
    [ok |-> TRUE, table |-> table \cup {new_row(s, username, password, at)},
     seq |-> s + 1]
insert_or_replace(table, s, username, password, at) ==
    [ok |-> TRUE,
     table |-> (table \ rows_of(table, username))
                 \cup {new_row(s, username, password, at)},
     seq |-> s + 1]
insert_user(table, s, username, password, at) ==
    IF rows_of(table, username) # {}
    THEN [ok |-> FALSE, table |-> table, seq |-> s]   \* sqlite3.IntegrityError
    ELSE [ok |-> TRUE, table |-> table \cup {new_row(s, username, password, at)},
          seq |-> s + 1]

\* create_user: True, or False on sqlite3.IntegrityError
create_user_always_true(table, s, username, password, at) ==
    [insert_user(table, s, username, password, at) EXCEPT !.ok = TRUE]
create_user(table, s, username, password, at) ==
    insert_user(table, s, username, password, at)

-----------------------------------------------------------------------------
(* Handlers of the script                                                  *)

\* login_form: what a submitted login shows and leaves in the session
login_form_enumerating(table, sess, u, p) ==
    IF check_credentials(table, strip(u), p)
    THEN [msg |-> <<"welcome", strip(u)>>,
          session |-> [logged_in |-> TRUE, username |-> strip(u)]]
    ELSE [msg |-> IF user_exists(table, strip(u))
                  THEN <<"invalid">> ELSE <<"unknown_user">>,
          session |-> sess]
login_form_unstripped(table, sess, u, p) ==
    IF check_credentials(table, strip(u), p)
    THEN [msg |-> <<"welcome", u>>,
          session |-> [logged_in |-> TRUE, username |-> u]]
    ELSE [msg |-> <<"invalid">>, session |-> sess]
login_form(table, sess, u, p) ==
    IF check_credentials(table, strip(u), p)
    THEN [msg |-> <<"welcome", strip(u)>>,
          session |-> [logged_in |-> TRUE, username |-> strip(u)]]
    ELSE [msg |-> <<"invalid">>, session |-> sess]

Idle(s) == pc[s] = "idle"

NoLocal == [nu |-> <<>>, p1 |-> <<>>]

\* lines 182-188: a submitted login form
Login(s, u, p) ==
    /\ Idle(s)
    /\ LET r == login_form(users, session[s], u, p)
       IN  /\ session' = [session EXCEPT ![s] = r.session]
           /\ out' = [msg |-> r.msg,
                      note |-> IF r.session = session[s] /\ r.msg[1] # "welcome"
                               THEN IF user_exists(users, strip(u))
                                    THEN "wrong_password" ELSE "unknown_user"
                               ELSE "none"]
    /\ UNCHANGED <<users, seq, utcnow, pc, local, created>>
    /\ UNCHANGED <<salvageVars, paceVars, pdfVars>>

\* lines 197-205: a submitted registration form, up to and including user_exists
RegisterCheck(s, nu, p1, p2) ==
    /\ Idle(s)
    /\ LET n == strip(nu)
       IN  IF n = <<>> \/ p1 = <<>>
           THEN out' = [msg |-> <<"fill_in">>, note |-> "none"]
                /\ UNCHANGED <<pc, local>>
           ELSE IF Len(p1) < 6
           THEN out' = [msg |-> <<"password_too_short">>, note |-> "none"]
                /\ UNCHANGED <<pc, local>>
           ELSE IF p1 # p2
           THEN out' = [msg |-> <<"passwords_differ">>, note |-> "none"]
                /\ UNCHANGED <<pc, local>>
           ELSE IF user_exists(users, n)
           THEN out' = [msg |-> <<"user_exists">>, note |-> "none"]
                /\ UNCHANGED <<pc, local>>
           ELSE /\ pc' = [pc EXCEPT ![s] = "create_user"]
                /\ local' = [local EXCEPT ![s] = [nu |-> n, p1 |-> p1]]
                /\ out' = out
    /\ UNCHANGED <<users, seq, utcnow, session, created>>
    /\ UNCHANGED <<salvageVars, paceVars, pdfVars>>

\* lines 208-211: create_user and its message
RegisterCreate(s) ==
    /\ pc[s] = "create_user"
    /\ LET r == create_user(users, seq, local[s].nu, local[s].p1, utcnow)
       IN  /\ users' = r.table
           /\ seq' = r.seq
           /\ out' = [msg |-> IF r.ok THEN <<"created">> ELSE <<"create_failed">>,
                      note |-> IF ~user_exists(users, local[s].nu) THEN "none"
                               ELSE IF check_credentials(users, local[s].nu, local[s].p1)
                               THEN "same_password" ELSE "other_password"]
           /\ created' = IF r.ok THEN Append(created, <<local[s].nu, local[s].p1>>)
                         ELSE created
    /\ pc' = [pc EXCEPT ![s] = "idle"]
    /\ local' = [local EXCEPT ![s] = NoLocal]
    /\ UNCHANGED <<utcnow, session>>
    /\ UNCHANGED <<salvageVars, paceVars, pdfVars>>

\* lines 274-278: the logout button of the logged-in area
Logout(s) ==
    /\ Idle(s)
    /\ session[s].logged_in
    /\ session' = [session EXCEPT ![s] = [logged_in |-> FALSE, username |-> <<>>]]
    /\ out' = [msg |-> <<"session_closed">>, note |-> "none"]
    /\ UNCHANGED <<users, seq, utcnow, pc, local, created>>
    /\ UNCHANGED <<salvageVars, paceVars, pdfVars>>

\* line 216: the logged-in area is rendered only under this condition
logged_in_area(sess) == sess.logged_in

\* the widgets of the logged-in area that start an action
AreaActions == {"chat", "pdf", "seo", "email"}

\* lines 216-471: a chat prompt, an uploaded PDF, the SEO or the e-mail button
AreaAction(s, kind) ==
    /\ Idle(s)
    /\ logged_in_area(session[s])
    /\ out' = [msg |-> <<"area", kind, s>>, note |-> "none"]
    /\ UNCHANGED <<users, seq, utcnow, session, pc, local, created>>
    /\ UNCHANGED <<salvageVars, paceVars, pdfVars>>

\* the wall clock behind datetime.utcnow()
Tick ==
    /\ utcnow < MaxClock
    /\ utcnow' = utcnow + 1
    /\ UNCHANGED <<users, seq, session, pc, local, out, created>>
    /\ UNCHANGED <<salvageVars, paceVars, pdfVars>>

StoreInit ==
    /\ users = {}
    /\ seq = 0
    /\ utcnow = 0
    /\ session = [s \in Sessions |-> [logged_in |-> FALSE, username |-> <<>>]]
    /\ pc = [s \in Sessions |-> "idle"]
    /\ local = [s \in Sessions |-> NoLocal]
    /\ out = [msg |-> <<"none">>, note |-> "none"]
    /\ created = <<>>

-----------------------------------------------------------------------------
(* Salvage of a JSON object from the model's text (SEO and e-mail tabs)    *)

\* The text is a sequence of tokens separated by blanks: the two braces, a
\* key with its colon ("k":), a number, a word that is not JSON, and the
\* fenced-block delimiter (three backquotes, written "fence").
Tokens == {"{", "}", "k:", "1", "x", "fence"}

Texts == UNION { [1..n -> Tokens] : n \in 0..MaxTextLen }

NoneValue == [type |-> "None", members |-> <<>>]
NumValue  == [type |-> "num", members |-> <<>>]
ObjValue(ms) == [type |-> "obj", members |-> ms]

\* str.find / str.rfind: the 0-based index of the first / last c, -1 if none
find(s, c) ==
    IF \E i \in DOMAIN s : s[i] = c
    THEN (CHOOSE i \in DOMAIN s : s[i] = c /\ \A j \in DOMAIN s : s[j] = c => i <= j) - 1
    ELSE -1

rfind(s, c) ==
    IF \E i \in DOMAIN s : s[i] = c
    THEN (CHOOSE i \in DOMAIN s : s[i] = c /\ \A j \in DOMAIN s : s[j] = c => j <= i) - 1
    ELSE -1

\* s[a:b] for 0 <= a <= b
slice(s, a, b) == SubSeq(s, a + 1, IF b > Len(s) THEN Len(s) ELSE b)

\* the JSON value starting at token i (1-based): [ok, val, next]
RECURSIVE parse_value(_, _)
parse_value(s, i) ==
    LET bad == [ok |-> FALSE, val |-> NoneValue, next |-> i]
    IN  IF i > Len(s) THEN bad
        ELSE IF s[i] = "1" THEN [ok |-> TRUE, val |-> NumValue, next |-> i + 1]
        ELSE IF s[i] = "{" THEN
            IF i + 1 <= Len(s) /\ s[i + 1] = "}"
            THEN [ok |-> TRUE, val |-> ObjValue(<<>>), next |-> i + 2]
            ELSE IF i + 1 <= Len(s) /\ s[i + 1] = "k:"
            THEN LET v == parse_value(s, i + 2)
                 IN  IF v.ok /\ v.next <= Len(s) /\ s[v.next] = "}"
                     THEN [ok |-> TRUE, val |-> ObjValue(<<<<"k", v.val>>>>),
                           next |-> v.next + 1]
                     ELSE bad
            ELSE bad
        ELSE bad

\* json.loads: [ok, val]; ok = FALSE stands for json.JSONDecodeError
json_loads(s) ==
    LET v == parse_value(s, 1)
    IN  IF v.ok /\ v.next = Len(s) + 1
        THEN [ok |-> TRUE, val |-> v.val]
        ELSE [ok |-> FALSE, val |-> NoneValue]

\* lines 335-340 and 436-441: the text handed to json.loads
salvage_text_short(text) ==
    LET start == find(text, "{")
        end   == rfind(text, "}")
    IN  IF start # -1 /\ end # -1 /\ end > start
        THEN slice(text, start, end)
        ELSE text
salvage_text(text) ==
    LET start == find(text, "{")
        end   == rfind(text, "}")
    IN  IF start # -1 /\ end # -1 /\ end > start
        THEN slice(text, start, end + 1)
        ELSE text

\* bool(value): a number other than 0 and a non-empty dict are true
truthy(v) == v.type = "num" \/ (v.type = "obj" /\ v.members # <<>>)

\* value.get(...): only a dict has it
has_get(v) == v.type = "obj"

\* what a handler shows: st.error(...), st.code(text, language="json"), st.success(...)
st_error == [kind |-> "error", text |-> <<>>]
st_code(text) == [kind |-> "code", text |-> text]
st_success == [kind |-> "success", text |-> <<>>]

\* lines 332-352: the SEO handler from the collected text on
seo_salvage(text) ==
    LET r == json_loads(salvage_text(text))
    IN  IF ~r.ok
        THEN [data |-> NoneValue,
              shown |-> << st_error, st_code(text) >>,
              crashed |-> FALSE]
        ELSE IF ~truthy(r.val)
        THEN [data |-> r.val, shown |-> <<>>, crashed |-> FALSE]
        ELSE [data |-> r.val, shown |-> << st_success >>,
              crashed |-> ~has_get(r.val)]

\* lines 433-471: the e-mail handler from the collected text on
email_salvage(text) ==
    LET r == json_loads(salvage_text(text))
    IN  IF ~r.ok
        THEN [data |-> NoneValue,
              shown |-> << st_error, st_code(text) >>,
              crashed |-> FALSE]
        ELSE IF ~has_get(r.val)
        THEN [data |-> r.val,
              shown |-> << st_success,
                           st_error, st_code(text) >>,
              crashed |-> FALSE]
        ELSE [data |-> r.val, shown |-> << st_success >>,
              crashed |-> FALSE]

SeoSalvage ==
    /\ handler = "none"
    /\ handler' = "seo"
    /\ LET r == seo_salvage(full)
       IN  data' = r.data /\ shown' = r.shown /\ crashed' = r.crashed
    /\ UNCHANGED full
    /\ UNCHANGED <<storeVars, paceVars, pdfVars>>

EmailSalvage ==
    /\ handler = "none"
    /\ handler' = "email"
    /\ LET r == email_salvage(full)
       IN  data' = r.data /\ shown' = r.shown /\ crashed' = r.crashed
    /\ UNCHANGED full
    /\ UNCHANGED <<storeVars, paceVars, pdfVars>>

SalvageIdle ==
    /\ handler = "none"
    /\ data = NoneValue
    /\ shown = <<>>
    /\ crashed = FALSE

-----------------------------------------------------------------------------
(* Pacing and retry of model calls                                         *)

MIN_INTERVAL == 30

\* time.time() at the start: any value at least MIN_INTERVAL past 0, the
\* default of "_last_call_ts"
Epoch == MIN_INTERVAL

MaxNow == Epoch + Horizon

FALLBACK_ID == "gemini-1.5-flash"

\* what MODEL_ID can be: a preferred model that pick_model found, or the default
ModelIds == {"gemini-1.5-pro", FALLBACK_ID}

\* the result of one chat.send_message: a stream, ResourceExhausted, another exception
SendOutcomes == {"ok", "quota", "error"}

NoCall ==
    [max_tries |-> 0, initial_wait |-> 0, i |-> 0, wait |-> 0, pc |-> "none",
     outcomes |-> <<>>, slept |-> <<>>]

\* send_with_retry, lines 65-66: entry
retry_start(max_tries, initial_wait) ==
    [max_tries |-> max_tries, initial_wait |-> initial_wait, i |-> 0,
     wait |-> initial_wait, pc |-> IF max_tries >= 1 THEN "try" ELSE "returned",
     outcomes |-> <<>>, slept |-> <<>>]

\* send_with_retry, lines 67-71 and 74-75: one chat.send_message and what follows
retry_attempt(r, outcome) ==
    [r EXCEPT !.outcomes = Append(@, outcome),
              !.pc = IF outcome = "ok" THEN "returned"
                     ELSE IF outcome = "error" THEN "raised_other"
                     ELSE IF r.i = r.max_tries - 1 THEN "raised_quota"
                     ELSE "sleep"]

\* send_with_retry, lines 72-73 and the next turn of the loop
retry_sleep_constant(r) ==
    [r EXCEPT !.slept = Append(@, r.wait), !.i = @ + 1, !.pc = "try"]
retry_sleep(r) ==
    [r EXCEPT !.slept = Append(@, r.wait), !.wait = @ * 2, !.i = @ + 1,
              !.pc = IF r.i + 1 < r.max_tries THEN "try" ELSE "returned"]

RetryDone(r) == r.pc \in {"returned", "raised_quota", "raised_other"}

\* one chat.send_message of the call in progress
SendAttempt(outcome) ==
    /\ rt.pc = "try"
    /\ rt' = retry_attempt(rt, outcome)
    /\ lastSendTs' = now
    /\ sends' = sends + 1
    /\ UNCHANGED <<now, last_call_ts, model_id, hpc, ui>>
    /\ UNCHANGED <<storeVars, salvageVars, pdfVars>>

\* time.sleep(wait)
Sleep ==
    /\ rt.pc = "sleep"
    /\ now + rt.wait <= MaxNow
    /\ now' = now + rt.wait
    /\ rt' = retry_sleep(rt)
    /\ UNCHANGED <<last_call_ts, model_id, hpc, ui, lastSendTs, sends>>
    /\ UNCHANGED <<storeVars, salvageVars, pdfVars>>

\* ensure_throttle, lines 77-84: [stop, ts, ui]
ensure_throttle_unpaced(t, last) ==
    [stop |-> FALSE, ts |-> t, ui |-> [kind |-> "accepted", falta |-> 0]]
ensure_throttle(t, last) ==
    IF t - last < MIN_INTERVAL
    THEN [stop |-> TRUE, ts |-> last,
          ui |-> [kind |-> "warning_throttle", falta |-> MIN_INTERVAL - (t - last)]]
    ELSE [stop |-> FALSE, ts |-> t, ui |-> [kind |-> "accepted", falta |-> 0]]

Show(kind) == [kind |-> kind, falta |-> 0]

\* lines 242-250, 312-331, 395-432: a chat prompt, or the SEO / e-mail button
\* with its text area empty or not
Submit(kind, empty) ==
    /\ hpc = "idle"
    /\ IF empty /\ kind # "chat"
       THEN /\ ui' = Show("warning_empty")
            /\ UNCHANGED <<last_call_ts, hpc, rt, sends>>
       ELSE LET e == ensure_throttle(now, last_call_ts)
            IN  /\ ui' = e.ui
                /\ last_call_ts' = e.ts
                /\ IF e.stop
                   THEN UNCHANGED <<hpc, rt, sends>>
                   ELSE /\ hpc' = kind
                        /\ rt' = retry_start(3, 2)
                        /\ sends' = 0
    /\ UNCHANGED <<now, model_id, lastSendTs>>
    /\ UNCHANGED <<storeVars, salvageVars, pdfVars>>

\* lines 251-261: the chat handler after send_with_retry
ChatAfterSend ==
    /\ hpc = "chat"
    /\ RetryDone(rt)
    /\ IF rt.pc = "returned"
       THEN ui' = Show("stream") /\ hpc' = "idle" /\ rt' = NoCall /\ model_id' = model_id
       ELSE IF rt.pc = "raised_other"
       THEN ui' = Show("exception") /\ hpc' = "idle" /\ rt' = NoCall
            /\ model_id' = model_id
       ELSE IF model_id # FALLBACK_ID
       THEN /\ ui' = Show("info_switch")
            /\ model_id' = FALLBACK_ID
            /\ hpc' = "chat_fallback"
            /\ rt' = retry_start(1, 2)
       ELSE ui' = Show("error_quota") /\ hpc' = "idle" /\ rt' = NoCall
            /\ model_id' = model_id
    /\ UNCHANGED <<now, last_call_ts, lastSendTs, sends>>
    /\ UNCHANGED <<storeVars, salvageVars, pdfVars>>

\* line 258: the second send_with_retry of the chat handler, outside any try
ChatAfterFallback ==
    /\ hpc = "chat_fallback"
    /\ RetryDone(rt)
    /\ ui' = IF rt.pc = "returned" THEN Show("stream") ELSE Show("exception")
    /\ hpc' = "idle"
    /\ rt' = NoCall
    /\ UNCHANGED <<now, last_call_ts, model_id, lastSendTs, sends>>
    /\ UNCHANGED <<storeVars, salvageVars, pdfVars>>

\* lines 331-348 and 432-471: the SEO and e-mail handlers after send_with_retry
FormAfterSend ==
    /\ hpc \in {"seo", "email"}
    /\ RetryDone(rt)
    /\ ui' = IF rt.pc = "returned" THEN Show("stream")
             ELSE IF rt.pc = "raised_quota" THEN Show("error_quota")
             ELSE Show("error_other")
    /\ hpc' = "idle"
    /\ rt' = NoCall
    /\ UNCHANGED <<now, last_call_ts, model_id, lastSendTs, sends>>
    /\ UNCHANGED <<storeVars, salvageVars, pdfVars>>

\* the wall clock
PaceTick ==
    /\ now < MaxNow
    /\ now' = now + 1
    /\ UNCHANGED <<last_call_ts, model_id, hpc, rt, ui, lastSendTs, sends>>
    /\ UNCHANGED <<storeVars, salvageVars, pdfVars>>

PaceIdle ==
    /\ now = Epoch
    /\ last_call_ts = 0
    /\ model_id = FALLBACK_ID
    /\ hpc = "idle"
    /\ rt = NoCall
    /\ ui = Show("none")
    /\ lastSendTs = -1
    /\ sends = 0

PaceStart ==
    /\ now = Epoch
    /\ last_call_ts = 0
    /\ model_id \in ModelIds
    /\ hpc = "idle"
    /\ rt = NoCall
    /\ ui = Show("none")
    /\ lastSendTs = -1
    /\ sends = 0

\* a call send_with_retry(chat, prompt, max_tries, initial_wait) on its own
RetryStart ==
    /\ now = Epoch
    /\ last_call_ts = 0
    /\ model_id = FALLBACK_ID
    /\ hpc = "call"
    /\ rt \in { retry_start(m, w) : m \in 1..MaxTries, w \in 1..MaxInitialWait }
    /\ ui = Show("none")
    /\ lastSendTs = -1
    /\ sends = 0

RetrySleep ==
    /\ rt.pc = "sleep"
    /\ now' = now + rt.wait
    /\ rt' = retry_sleep(rt)
    /\ UNCHANGED <<last_call_ts, model_id, hpc, ui, lastSendTs, sends>>
    /\ UNCHANGED <<storeVars, salvageVars, pdfVars>>

-----------------------------------------------------------------------------
(* extract_text_from_pdf                                                   *)

Libraries == 1..3

\* what page.extract_text() gives for a page: its text, None, or an exception
PageOutcomes == {"text", "none", "raise"}

\* the text library l extracts from page n
page_text(l, n) == << <<l, n>> >>

\* the except Exception: pass of a library, and what comes next
next_library(l) == l + 1

\* lines 133, 136-138 (145-148, 156-158): import the library and open the document
OpenDocument(ok) ==
    /\ ppc = "open"
    /\ lib \in Libraries
    /\ IF ok
       THEN ppc' = "pages" /\ UNCHANGED <<lib, result>>
       ELSE IF next_library(lib) \in Libraries
       THEN lib' = next_library(lib) /\ UNCHANGED <<ppc, result>>
       ELSE lib' = next_library(lib) /\ ppc' = "returned" /\ result' = <<>>
    /\ page' = 0
    /\ own' = <<>>
    /\ UNCHANGED <<pages, pdf_text>>
    /\ UNCHANGED <<storeVars, salvageVars, paceVars>>

\* lines 139-140 (149-150, 159-160): text += page.extract_text() or ""
ExtractPage(outcome) ==
    /\ ppc = "pages"
    /\ page < pages
    /\ IF outcome = "raise"
       THEN /\ IF next_library(lib) \in Libraries
               THEN ppc' = "open" /\ result' = result
               ELSE ppc' = "returned" /\ result' = <<>>
            /\ lib' = next_library(lib)
            /\ page' = 0
            /\ own' = <<>>
            /\ pdf_text' = pdf_text
       ELSE /\ pdf_text' = pdf_text \o (IF outcome = "text" THEN page_text(lib, page + 1) ELSE <<>>)
            /\ own' = own \o (IF outcome = "text" THEN page_text(lib, page + 1) ELSE <<>>)
            /\ page' = page + 1
            /\ UNCHANGED <<lib, ppc, result>>
    /\ UNCHANGED pages
    /\ UNCHANGED <<storeVars, salvageVars, paceVars>>

\* line 141 (151, 161): return text
ReturnText ==
    /\ ppc = "pages"
    /\ page = pages
    /\ ppc' = "returned"
    /\ result' = pdf_text
    /\ UNCHANGED <<pages, lib, page, pdf_text, own>>
    /\ UNCHANGED <<storeVars, salvageVars, paceVars>>

PdfIdle ==
    /\ pages = 0
    /\ lib = 1
    /\ ppc = "open"
    /\ page = 0
    /\ pdf_text = <<>>
    /\ own = <<>>
    /\ result = <<>>

PdfStart ==
    /\ pages \in 0..MaxPages
    /\ lib = 1
    /\ ppc = "open"
    /\ page = 0
    /\ pdf_text = <<>>
    /\ own = <<>>
    /\ result = <<>>

-----------------------------------------------------------------------------
(* Specifications                                                          *)

\* the credential store and two sessions
Init == StoreInit /\ full = <<>> /\ SalvageIdle /\ PaceIdle /\ PdfIdle

Next ==
    \/ \E s \in Sessions, u \in RawNames, p \in Passwords : Login(s, u, p)
    \/ \E s \in Sessions, nu \in RawNames, p1 \in Passwords, p2 \in Passwords :
          RegisterCheck(s, nu, p1, p2)
    \/ \E s \in Sessions : RegisterCreate(s)
    \/ \E s \in Sessions : Logout(s)
    \/ \E s \in Sessions, kind \in AreaActions : AreaAction(s, kind)
    \/ Tick

Spec == Init /\ [][Next]_vars

\* the salvage step applied to every text of the bound
SalvageInit == StoreInit /\ full \in Texts /\ SalvageIdle /\ PaceIdle /\ PdfIdle

SalvageNext == SeoSalvage \/ EmailSalvage

SalvageSpec == SalvageInit /\ [][SalvageNext]_vars

\* the paced handlers of one session
PaceInit == StoreInit /\ full = <<>> /\ SalvageIdle /\ PaceStart /\ PdfIdle

PaceNext ==
    \/ \E kind \in {"chat", "seo", "email"}, empty \in BOOLEAN : Submit(kind, empty)
    \/ \E outcome \in SendOutcomes : SendAttempt(outcome)
    \/ Sleep
    \/ ChatAfterSend
    \/ ChatAfterFallback
    \/ FormAfterSend
    \/ PaceTick

PaceSpec == PaceInit /\ [][PaceNext]_vars

\* one call send_with_retry(chat, prompt, max_tries, initial_wait) on its own;
\* the loop runs on by itself and a sleep ends
RetryInit == StoreInit /\ full = <<>> /\ SalvageIdle /\ RetryStart /\ PdfIdle

RetryNext ==
    \/ \E outcome \in SendOutcomes : SendAttempt(outcome)
    \/ RetrySleep

RetrySpec == RetryInit /\ [][RetryNext]_vars /\ WF_vars(RetryNext)

\* one call of extract_text_from_pdf
PdfInit == StoreInit /\ full = <<>> /\ SalvageIdle /\ PaceIdle /\ PdfStart

PdfNext ==
    \/ \E ok \in BOOLEAN : OpenDocument(ok)
    \/ \E outcome \in PageOutcomes : ExtractPage(outcome)
    \/ ReturnText

PdfSpec == PdfInit /\ [][PdfNext]_vars

-----------------------------------------------------------------------------
(* Properties of the credential store                                      *)

\* user names as stored or looked up: the typed ones and their stripped forms
Names == RawNames \cup { strip(n) : n \in RawNames }

CreatedWith(u, p) == \E i \in DOMAIN created : created[i] = <<u, p>>

\* C1: check_credentials(username, password) is true if and only if a row for
\* exactly that username exists and the password is the one given to the
\* create_user that inserted the row; so it is true right after that
\* create_user, false for any other password and false for a name never created.
C1_VerifyIffCreated ==
    \A u \in Names, p \in Passwords :
        check_credentials(users, u, p) <=> CreatedWith(u, p)

\* a user was created and a login with the creating password was then accepted
C1_Witness ==
    /\ out.msg[1] = "welcome"
    /\ \E i \in DOMAIN created :
          /\ created[i][1] = out.msg[2]
          /\ check_credentials(users, created[i][1], created[i][2])
          /\ ~check_credentials(users, created[i][1], PwWrong)
    /\ \E n \in Names : ~user_exists(users, n) /\ ~check_credentials(users, n, PwSecret)

\* C2: create_user on a username already in the table returns False whatever
\* the password, and leaves the table as it was: the row keeps its digest, the
\* original password still verifies and the second password does not.
C2_ExistingNameRefused ==
    /\ [](\A u \in Names, p \in Passwords :
            user_exists(users, u) =>
                LET r == create_user(users, seq, u, p, utcnow)
                IN  ~r.ok /\ r.table = users)
    /\ [][\A s \in Sessions :
            (pc[s] = "create_user" /\ pc'[s] = "idle"
                /\ user_exists(users, local[s].nu)) =>
                /\ out'.msg = <<"create_failed">>
                /\ users' = users
                /\ \A i \in DOMAIN created :
                      created[i][1] = local[s].nu =>
                          /\ check_credentials(users', local[s].nu, created[i][2])
                          /\ (local[s].p1 # created[i][2] =>
                                ~check_credentials(users', local[s].nu, local[s].p1))
         ]_vars

\* a create_user with another password has been refused for a name in the table
C2_Witness ==
    /\ out.msg = <<"create_failed">>
    /\ out.note = "other_password"
    /\ Len(created) = 1
    /\ check_credentials(users, created[1][1], created[1][2])

\* C3: no two rows share a username, also when several sessions run the
\* registration (user_exists, then create_user) for the same name in any
\* interleaving; at most one create_user per name returns True.
C3_UniqueUsernames ==
    /\ \A r1 \in users, r2 \in users : r1.username = r2.username => r1 = r2
    /\ \A i \in DOMAIN created, j \in DOMAIN created :
          created[i][1] = created[j][1] => i = j

\* two sessions passed user_exists for the same name; one create_user has
\* returned True and the other is about to run
C3_Witness ==
    \E s1 \in Sessions, s2 \in Sessions :
        /\ s1 # s2
        /\ pc[s1] = "idle" /\ pc[s2] = "create_user"
        /\ out.msg = <<"created">>
        /\ created # <<>>
        /\ created[Len(created)][1] = local[s2].nu
        /\ Cardinality(rows_of(users, local[s2].nu)) = 1

\* C4: a row, once created, is never updated or deleted; the only change to
\* the table is a create_user that returned True adding exactly one row, with
\* a fresh id.
C4_RowsImmutable ==
    [][/\ users \subseteq users'
       /\ users' # users =>
            /\ \E s \in Sessions : pc[s] = "create_user" /\ pc'[s] = "idle"
            /\ out'.msg = <<"created">>
            /\ Cardinality(users' \ users) = 1
            /\ \A n \in users' \ users :
                  /\ \A r \in users : r.id # n.id
                  /\ n.created_at = utcnow
      ]_vars

\* a user logged in and out again and the rows are all still there
C4_Witness ==
    /\ out.msg = <<"session_closed">>
    /\ Len(created) = 2
    /\ Cardinality(users) = 2
    /\ \A i \in DOMAIN created :
          check_credentials(users, created[i][1], created[i][2])

\* C5: from the same session state, a login with a username that is not in
\* the table and a login with a username that is, but with a wrong password,
\* show the same message and leave the same session state.
C5_NoUserEnumeration ==
    \A s \in Sessions, u1 \in RawNames, u2 \in RawNames :
        (~user_exists(users, strip(u1)) /\ user_exists(users, strip(u2))) =>
            \A p1 \in Passwords, p2 \in Passwords :
                ~check_credentials(users, strip(u2), p2) =>
                    LET unknown == login_form(users, session[s], u1, p1)
                        wrong   == login_form(users, session[s], u2, p2)
                    IN  /\ unknown = wrong
                        /\ unknown.msg = <<"invalid">>
                        /\ unknown.session = session[s]

\* a login of a logged-in session was refused for a wrong password, in a
\* state where some other name is not in the table
C5_Witness ==
    /\ out.msg = <<"invalid">>
    /\ out.note = "wrong_password"
    /\ \E s \in Sessions : session[s].logged_in
    /\ \E u \in RawNames : ~user_exists(users, strip(u))

\* what holds of every session in every state
C11_SessionInv ==
    \A s \in Sessions :
        /\ session[s].logged_in =>
              /\ session[s].username # <<>>
              /\ user_exists(users, session[s].username)
              /\ \E p \in Passwords :
                    check_credentials(users, session[s].username, p)
        /\ ~session[s].logged_in <=> session[s].username = <<>>

\* what holds of every step
C11_SessionStep ==
    /\ \A s \in Sessions :
          session'[s] # session[s] =>
              IF session'[s].logged_in
              THEN /\ out'.msg = <<"welcome", session'[s].username>>
                   /\ \E p \in Passwords :
                         check_credentials(users, session'[s].username, p)
              ELSE /\ out'.msg = <<"session_closed">>
                   /\ session[s].logged_in
                   /\ session'[s].username = <<>>
    /\ out'.msg = <<"invalid">> => session' = session
    /\ \A s \in Sessions :
          (out' # out /\ out'.msg[1] = "area" /\ out'.msg[3] = s) =>
              /\ session[s].logged_in
              /\ session' = session

\* C11: logged_in is true only if the session username is a non-empty name of
\* the table for which check_credentials returned true since the last logout;
\* logged_in is false exactly when the username is empty; a refused login
\* leaves logged_in and username as they were; the actions of the logged-in
\* area (chat, PDF, SEO, e-mail) run only while logged_in is true.
C11_LoggedInOnlyAfterVerify == []C11_SessionInv /\ [][C11_SessionStep]_vars

\* a logged-in session ran an action of the logged-in area while the other
\* session, logged out, has an empty username
C11_Witness ==
    /\ out.msg[1] = "area"
    /\ session[out.msg[3]].logged_in
    /\ check_credentials(users, session[out.msg[3]].username, PwSecret)
    /\ \E s \in Sessions :
          /\ ~session[s].logged_in /\ session[s].username = <<>>
          /\ s # out.msg[3]
    /\ Cardinality(users) = 2

-----------------------------------------------------------------------------
(* Properties of the salvage step                                          *)

Done == handler # "none"

\* the text has a '{' and a '}' after it
has_span(text) ==
    find(text, "{") # -1 /\ rfind(text, "}") # -1 /\ rfind(text, "}") > find(text, "{")

\* the handler reported the failure with the raw text, and kept no value
ParseErrorReported ==
    /\ ~crashed
    /\ data = NoneValue
    /\ shown = <<st_error, st_code(full)>>

\* the handler's result as Result<Object, ParseError>
Outcome ==
    IF ParseErrorReported
    THEN [tag |-> "ParseError", raw |-> full, val |-> NoneValue]
    ELSE [tag |-> "Ok", raw |-> <<>>, val |-> data]

\* C6: when the text has no '{', or no '}', or its last '}' does not follow
\* its first '{', or the span from the first '{' to the last '}' is not a
\* parsable JSON object, the handler reports ParseError with the raw text and
\* yields no parsed value.
C6_ParseErrorWithoutObject ==
    (Done /\ (~has_span(full)
                \/ ~json_loads(slice(full, find(full, "{"), rfind(full, "}") + 1)).ok))
        => ParseErrorReported

\* the reference algorithm of the specification
has_fence(text) == find(text, "fence") # -1

first_block(text) ==
    LET rest == slice(text, find(text, "fence") + 1, Len(text))
    IN  IF has_fence(rest) THEN slice(rest, 0, find(rest, "fence")) ELSE rest

extract_json(text) ==
    LET t == IF has_fence(text) THEN first_block(text) ELSE text
        r == json_loads(slice(t, find(t, "{"), rfind(t, "}") + 1))
    IN  IF has_span(t) /\ r.ok
        THEN [tag |-> "Ok", raw |-> <<>>, val |-> r.val]
        ELSE [tag |-> "ParseError", raw |-> text, val |-> NoneValue]

\* every brace of the text lies inside its first fenced block
braces_in_first_block(text) ==
    LET open  == find(text, "fence") + 1
        rest  == slice(text, open, Len(text))
        close == IF has_fence(rest) THEN open + find(rest, "fence") + 1 ELSE Len(text) + 1
    IN  \A i \in DOMAIN text : text[i] \in {"{", "}"} => open < i /\ i < close

\* C7 as claimed, for the texts with a fenced block: the braces are looked for
\* inside the first fenced block only, so the result is the reference
\* algorithm's.
C7_FencedAsReference ==
    (Done /\ has_fence(full)) => Outcome = extract_json(full)

\* C7 as the code has it: the braces are looked for in the unmodified text,
\* fenced or not; with a '{' and a later '}' the result is the parse of that
\* span, which is the reference algorithm's result when the text has no
\* fenced block or has all its braces inside the first fenced block.
C7_SpanOfWholeText ==
    (Done /\ has_span(full)) =>
        LET r == json_loads(slice(full, find(full, "{"), rfind(full, "}") + 1))
        IN  /\ r.ok => Outcome = [tag |-> "Ok", raw |-> <<>>, val |-> r.val]
            /\ ~r.ok => Outcome = [tag |-> "ParseError", raw |-> full, val |-> NoneValue]
            /\ (~has_fence(full) \/ braces_in_first_block(full))
                  => Outcome = extract_json(full)

\* an object inside a closed fenced block was salvaged
C7_Witness ==
    /\ Done
    /\ has_fence(full) /\ rfind(full, "fence") > find(full, "fence")
    /\ has_span(full) /\ braces_in_first_block(full)
    /\ Outcome.tag = "Ok"
    /\ Outcome.val = ObjValue(<<>>)
    /\ Outcome = extract_json(full)

-----------------------------------------------------------------------------
(* Properties of the pacing and of send_with_retry                         *)

\* the step is one chat.send_message
IsSend == sends' = sends + 1

\* C8 as claimed: at most one model call within any window of MIN_INTERVAL
\* seconds, so a chat.send_message comes at least MIN_INTERVAL after the one
\* before it.
C8_OneCallPerInterval ==
    [][IsSend => (lastSendTs = -1 \/ now - lastSendTs >= MIN_INTERVAL)]_vars

\* C8 as the code has it: at most one action is accepted within any window of
\* MIN_INTERVAL seconds, and an accepted action makes up to 3 calls (4 in the
\* chat, with the fallback model). An action less than MIN_INTERVAL after the
\* last accepted one gets a warning and is stopped: no call, nothing left
\* pending, the timestamp unchanged. An accepted action sets the timestamp to
\* the current time before any call.
C8_OneAcceptedActionPerInterval ==
    [][/\ (hpc = "idle" /\ hpc' # "idle") =>
            /\ now - last_call_ts >= MIN_INTERVAL
            /\ last_call_ts' = now
            /\ ui'.kind = "accepted"
            /\ sends' = 0
            /\ UNCHANGED <<now, lastSendTs>>
       /\ (hpc = "idle" /\ now - last_call_ts < MIN_INTERVAL) =>
            /\ hpc' = "idle"
            /\ rt' = NoCall
            /\ UNCHANGED <<last_call_ts, lastSendTs, sends>>
            /\ (now' = now /\ ui' # ui) =>
                  ui'.kind \in {"warning_throttle", "warning_empty"}
       /\ (hpc = "idle" /\ now' = now /\ ui'.kind = "warning_throttle") =>
            /\ now - last_call_ts < MIN_INTERVAL
            /\ ui'.falta = MIN_INTERVAL - (now - last_call_ts)
       /\ last_call_ts' # last_call_ts => (hpc = "idle" /\ hpc' # "idle")
       /\ IsSend =>
            /\ hpc # "idle"
            /\ lastSendTs' = now
            /\ last_call_ts <= now
            /\ sends' <= (IF hpc \in {"chat", "chat_fallback"} THEN 4 ELSE 3)
      ]_vars

\* an action was stopped with the warning, after an accepted action that made
\* more than one call
C8_Witness ==
    /\ ui.kind = "warning_throttle"
    /\ hpc = "idle"
    /\ sends >= 2
    /\ last_call_ts >= Epoch
    /\ now - last_call_ts < MIN_INTERVAL

RECURSIVE Pow2(_)
Pow2(n) == IF n = 0 THEN 1 ELSE 2 * Pow2(n - 1)

RECURSIVE SumSeq(_)
SumSeq(s) == IF s = <<>> THEN 0 ELSE Head(s) + SumSeq(Tail(s))

C9_Inv ==
    LET n == Len(rt.outcomes)
    IN  /\ n <= rt.max_tries
        /\ \A k \in 1..(n - 1) : rt.outcomes[k] = "quota"
        /\ Len(rt.slept) = (IF rt.pc = "try" THEN n ELSE n - 1)
        /\ \A k \in DOMAIN rt.slept : rt.slept[k] = rt.initial_wait * Pow2(k - 1)
        /\ now = Epoch + SumSeq(rt.slept)
        /\ rt.pc \in {"try", "sleep", "returned", "raised_quota", "raised_other"}
        /\ rt.pc = "try" => n < rt.max_tries
        /\ rt.pc = "sleep" <=> (n >= 1 /\ n < rt.max_tries /\ rt.outcomes[n] = "quota"
                                  /\ Len(rt.slept) = n - 1)
        /\ rt.pc = "returned" <=> (n >= 1 /\ rt.outcomes[n] = "ok")
        /\ rt.pc = "raised_other" <=> (n >= 1 /\ rt.outcomes[n] = "error")
        /\ rt.pc = "raised_quota" <=> (n = rt.max_tries /\ rt.outcomes[n] = "quota")

\* C9: send_with_retry with max_tries >= 1 makes at most max_tries attempts
\* and ends; it returns the first attempt that succeeds, tries again only
\* after a quota error, sleeping initial_wait * 2^(k-1) after the k-th failed
\* attempt, raises the quota error of the last allowed attempt and raises any
\* other error at once.
C9_BoundedRetry == []C9_Inv /\ <>RetryDone(rt)

\* send_with_retry(chat, prompt, 3, 2) failed three times on the quota
C9_Witness ==
    /\ rt.pc = "raised_quota"
    /\ rt.max_tries = 3 /\ rt.initial_wait = 2
    /\ rt.outcomes = <<"quota", "quota", "quota">>
    /\ rt.slept = <<2, 4>>

-----------------------------------------------------------------------------
(* Properties of extract_text_from_pdf                                     *)

\* C10: the result is the page texts of exactly one library, the first that
\* reads all pages without raising, and the empty string when all three
\* fail; the pages a library read before it raised are not in the result.
C10_TextOfOneLibrary ==
    ppc = "returned" => result = (IF lib \in Libraries THEN own ELSE <<>>)

=============================================================================
